---- MODULE Spec2Model ----
(***************************************************************************)
(* Monte Carlo polygon area estimator (reqB2.c): main, the worker threads, *)
(* the progress bar thread and the geometry kernel they call.              *)
(*                                                                         *)
(* Coordinates are doubles in the program.  Here they are integers counted *)
(* in units of 1/Scale, so that every product the kernel forms is exact.   *)
(***************************************************************************)
EXTENDS Integers, Naturals, Sequences, FiniteSets, TLC

\* ---------------------------------------------------------------- bounds
MaxThreads == 2            \* largest num_threads tried
MaxPoints == 2             \* largest num_pontos_aleatorios tried from the start
MaxSamples == 6            \* most samples the workers of one run draw in all
MidRunWindow == 2          \* how far before total_points a mid-run state starts
GridMax == 2               \* largest coordinate of the points given to orientation and doIntersect

\* ------------------------------------------------------ program constants
Scale == 2                 \* grid units per coordinate unit (0.5 steps)
DomainSide == 2            \* rand() / RAND_MAX * 2
ExtremeX2 == 5             \* extreme.x = 2.5, in units of 1/2
AreaOfReference == 4       \* area_of_reference = 4.0
HalfWord == 65536          \* 2^16, one limb of a 32-bit int
ArgcExpected == 4          \* argc != 4
MinVertices == 3           \* n < 3
MAX_POINTS == 1000000       \* #define MAX_POINTS

Pt(x, y) == [x |-> x, y |-> y]

\* ------------------------------------------------------- geometry kernel
orientation_ColinearAsClockwise(p, q, r) ==
    LET val == (q.y - p.y) * (r.x - q.x) - (q.x - p.x) * (r.y - q.y)
    IN  IF val >= 0 THEN 1 ELSE 2

orientation(p, q, r) ==
    LET val == (q.y - p.y) * (r.x - q.x) - (q.x - p.x) * (r.y - q.y)
    IN  IF val = 0 THEN 0 ELSE IF val > 0 THEN 1 ELSE 2

fmax(a, b) == IF a > b THEN a ELSE b
fmin(a, b) == IF a < b THEN a ELSE b

onSegment(p, q, r) ==
    /\ q.x <= fmax(p.x, r.x) /\ q.x >= fmin(p.x, r.x)
    /\ q.y <= fmax(p.y, r.y) /\ q.y >= fmin(p.y, r.y)

\* (A value used more than once is bound by a quantifier over a one-element
\* set, which evaluates it once.)
doIntersect_NoOnSegment(p1, q1, p2, q2) ==
    \E o1 \in { orientation(p1, q1, p2) }, o2 \in { orientation(p1, q1, q2) },
       o3 \in { orientation(p2, q2, p1) }, o4 \in { orientation(p2, q2, q1) } :
        IF o1 # o2 /\ o3 # o4 THEN TRUE
        ELSE IF o1 = 0 THEN TRUE
        ELSE IF o2 = 0 /\ onSegment(p1, q2, q1) THEN TRUE
        ELSE IF o3 = 0 /\ onSegment(p2, p1, q2) THEN TRUE
        ELSE IF o4 = 0 /\ onSegment(p2, q1, q2) THEN TRUE
        ELSE FALSE

doIntersect(p1, q1, p2, q2) ==
    \E o1 \in { orientation(p1, q1, p2) }, o2 \in { orientation(p1, q1, q2) },
       o3 \in { orientation(p2, q2, p1) }, o4 \in { orientation(p2, q2, q1) } :
        IF o1 # o2 /\ o3 # o4 THEN TRUE
        ELSE IF o1 = 0 /\ onSegment(p1, p2, q1) THEN TRUE
        ELSE IF o2 = 0 /\ onSegment(p1, q2, q1) THEN TRUE
        ELSE IF o3 = 0 /\ onSegment(p2, p1, q2) THEN TRUE
        ELSE IF o4 = 0 /\ onSegment(p2, q1, q2) THEN TRUE
        ELSE FALSE

\* The do-while of isInsidePolygon from edge index i (0-based, as in the C
\* code) with `count` crossings so far.
RECURSIVE EdgeLoop_CountOnly(_, _, _, _, _)
EdgeLoop_CountOnly(poly, n, p, i, count) ==
    LET next == (i + 1) % n
        extreme == Pt(ExtremeX2, p.y)
    IN  \E c \in { IF doIntersect(poly[i + 1], poly[next + 1], p, extreme)
                   THEN count + 1 ELSE count } :
          IF next # 0 THEN EdgeLoop_CountOnly(poly, n, p, next, c)
          ELSE c % 2 = 1

RECURSIVE EdgeLoop(_, _, _, _, _)
EdgeLoop(poly, n, p, i, count) ==
    LET next == (i + 1) % n
        extreme == Pt(ExtremeX2, p.y)
        a == poly[i + 1]
        b == poly[next + 1]
    IN  \E hit \in { doIntersect(a, b, p, extreme) } :
          IF hit /\ orientation(a, p, b) = 0
          THEN onSegment(a, p, b)
          ELSE \E c \in { IF hit THEN count + 1 ELSE count } :
                 IF next # 0 THEN EdgeLoop(poly, n, p, next, c)
                 ELSE c % 2 = 1

isInsidePolygon_TwoVertices(poly, n, p) ==
    IF n < MinVertices - 1 THEN FALSE ELSE EdgeLoop(poly, n, p, 0, 0)

isInsidePolygon(poly, n, p) ==
    IF n < MinVertices THEN FALSE ELSE EdgeLoop(poly, n, p, 0, 0)

\* The number of edges a call of isInsidePolygon passes to doIntersect: the
\* iterations of its do-while up to the return.
RECURSIVE EdgeVisits(_, _, _, _)
EdgeVisits(poly, n, p, i) ==
    LET next == (i + 1) % n
        a == poly[i + 1]
        b == poly[next + 1]
    IN  IF doIntersect(a, b, p, Pt(ExtremeX2, p.y)) /\ orientation(a, p, b) = 0
        THEN 1
        ELSE IF next # 0 THEN 1 + EdgeVisits(poly, n, p, next) ELSE 1

EdgesInspected(poly, n, p) ==
    IF n < MinVertices THEN 0 ELSE EdgeVisits(poly, n, p, 0)

\* ------------------------------------------------ fixed-width arithmetic
IntMin == -(32768 * HalfWord)
IntMax == 32767 * HalfWord + 65535

\* c * 100 as the pair <<high, low>> of base-2^16 limbs of the exact
\* product (high is not reduced), for any int c in two's complement.
Mul100Limbs(c) ==
    LET lo == c % HalfWord
        hi == (c \div HalfWord) % HalfWord
        pl == lo * 100
    IN  << hi * 100 + (pl \div HalfWord), pl % HalfWord >>

\* (checked * 100) in int arithmetic: the low 32 bits of the product, read
\* as a signed value (the result an x86/ARM build of the multiply gives).
Mul100(c) ==
    LET l == Mul100Limbs(c)
        h == l[1] % HalfWord
    IN  IF h >= 32768 THEN (h - HalfWord) * HalfWord + l[2]
        ELSE h * HalfWord + l[2]

\* C integer division truncates toward zero (b > 0 here).
TruncDiv(a, b) == IF a >= 0 THEN a \div b ELSE (a + b - 1) \div b

Progress(c, total) == TruncDiv(Mul100(c), total)

\* The smallest count whose product with 100 no longer fits an int.
ThresholdTotal == (IntMax \div 100) + 1

\* --------------------------------------------------------------- inputs
\* Polygon files: a sequence of lines, each a vertex or a line that does not
\* scan as two numbers ("junk").
Junk == [junk |-> TRUE]
Vtx(x, y) == [junk |-> FALSE, p |-> Pt(x, y)]

UnitSquareFile == << Vtx(0, 0), Vtx(Scale, 0), Junk, Vtx(Scale, Scale), Vtx(0, Scale) >>
TwoVertexFile == << Vtx(0, 0), Vtx(Scale, 0), Junk >>
EmptyFile == << >>

PolygonFiles == { UnitSquareFile, TwoVertexFile, EmptyFile }

\* sscanf(line, "%lf %lf", ...) == 2 keeps the line, anything else skips it.
RECURSIVE ParsePolygon(_)
ParsePolygon(lines) ==
    IF lines = << >> THEN << >>
    ELSE IF Head(lines).junk THEN ParsePolygon(Tail(lines))
    ELSE << Head(lines).p >> \o ParsePolygon(Tail(lines))

\* rand() / RAND_MAX * 2 for both coordinates: the samples tried are the
\* centres of the four unit cells of the domain [0,2] x [0,2].
SampleCoords == { c \in 0..(DomainSide * Scale) : c % Scale = 1 }
SamplePoints == { Pt(x, y) : x \in SampleCoords, y \in SampleCoords }

Threads == 1..MaxThreads
ThreadCounts == -1..MaxThreads
PointCounts == -1..MaxPoints

\* ---------------------------------------------------------------- state
VARIABLES
    argc, num_threads, num_pontos_aleatorios,   \* main: the command line
    pc,                                         \* main: position
    n,                                          \* main: vertices parsed
    polygon, polygon_size, total_points,        \* SharedData
    points_inside, points_checked,              \* SharedData
    mutex,                                      \* SharedData.mutex: 0 free, else owner
    created, joined,                            \* main: the two loops over worker_threads
    progress_created,                           \* main: progress_thread exists
    estimated_area,                             \* main: what was printed, << >> if nothing
    wpc, wi, points_per_thread,                 \* worker_thread: position and locals
    rpc, checked, progress, printed,            \* progress_bar: position and locals
    call, ret, edges                            \* a kernel function called on its own

vars == << argc, num_threads, num_pontos_aleatorios, pc, n, polygon, polygon_size,
           total_points, points_inside, points_checked, mutex, created, joined,
           progress_created, estimated_area, wpc, wi, points_per_thread,
           rpc, checked, progress, printed, call, ret, edges >>

kernelVars == << call, ret, edges >>
inputVars == << argc, num_threads, num_pontos_aleatorios >>
dataConst == << polygon, polygon_size, total_points >>
counters == << points_inside, points_checked >>
workerVars == << wpc, wi, points_per_thread >>
reporterVars == << rpc, checked, progress, printed >>
mainLoopVars == << created, joined, progress_created, estimated_area >>

\* No kernel function is called on its own during a run of main.
NoCall == [fn |-> "none", pts |-> << >>, poly |-> << >>]

ReporterId == MaxThreads + 1      \* mutex owner id of the progress thread

\* The state at the entry of main.  SharedData does not exist before line 208
\* and nothing reads it before MainInit assigns its fields; its fields and the
\* threads' locals are shown as 0 until then.
Init ==
    /\ argc \in { ArgcExpected - 1, ArgcExpected }
    /\ num_threads \in ThreadCounts
    /\ num_pontos_aleatorios \in PointCounts
    /\ (num_threads > 0 /\ num_pontos_aleatorios > 0) =>
          num_threads * num_pontos_aleatorios <= MaxSamples
    /\ pc = "args"
    /\ n = 0
    /\ polygon = << >>
    /\ polygon_size = 0
    /\ total_points = 0
    /\ points_inside = 0
    /\ points_checked = 0
    /\ mutex = 0
    /\ created = 0
    /\ joined = 0
    /\ progress_created = FALSE
    /\ estimated_area = << >>
    /\ wpc = [w \in Threads |-> "unborn"]
    /\ wi = [w \in Threads |-> 0]
    /\ points_per_thread = [w \in Threads |-> 0]
    /\ rpc = "unborn"
    /\ checked = 0
    /\ progress = 0
    /\ printed = FALSE
    /\ call = NoCall
    /\ ret = << >>
    /\ edges = 0

\* ----------------------------------------------------------------- main
\* if (argc != 4) return EXIT_FAILURE;
MainArgs ==
    /\ pc = "args"
    /\ pc' = IF argc # ArgcExpected THEN "exit_failure" ELSE "validate"
    /\ UNCHANGED << kernelVars, inputVars, n, dataConst, counters, mutex, mainLoopVars,
                    workerVars, reporterVars >>

\* if (num_threads <= 0 || num_pontos_aleatorios <= 0) return EXIT_FAILURE;
MainValidate ==
    /\ pc = "validate"
    /\ pc' = IF num_threads <= 0 \/ num_pontos_aleatorios <= 0
             THEN "exit_failure" ELSE "open"
    /\ UNCHANGED << kernelVars, inputVars, n, dataConst, counters, mutex, mainLoopVars,
                    workerVars, reporterVars >>

\* open() or malloc() fails: EXIT_FAILURE.
MainOpenFails ==
    /\ pc = "open"
    /\ pc' = "exit_failure"
    /\ UNCHANGED << kernelVars, inputVars, n, dataConst, counters, mutex, mainLoopVars,
                    workerVars, reporterVars >>

\* open() and malloc() succeed; the read loop scans the file's lines into
\* the local array and counts them in n.
MainParse ==
    /\ pc = "open"
    /\ \E f \in PolygonFiles :
         /\ polygon' = ParsePolygon(f)
         /\ n' = Len(ParsePolygon(f))
    /\ pc' = IF n' >= MAX_POINTS THEN "exit_failure" ELSE "check_polygon"
    /\ UNCHANGED << kernelVars, inputVars, polygon_size, total_points, counters, mutex,
                    mainLoopVars, workerVars, reporterVars >>

\* if (n < 3) { free(polygon); return EXIT_FAILURE; }
MainCheckPolygon_TwoVertices ==
    /\ pc = "check_polygon"
    /\ pc' = IF n < MinVertices - 1 THEN "exit_failure" ELSE "init"
    /\ UNCHANGED << kernelVars, inputVars, n, dataConst, counters, mutex, mainLoopVars,
                    workerVars, reporterVars >>

MainCheckPolygon ==
    /\ pc = "check_polygon"
    /\ pc' = IF n < MinVertices THEN "exit_failure" ELSE "init"
    /\ UNCHANGED << kernelVars, inputVars, n, dataConst, counters, mutex, mainLoopVars,
                    workerVars, reporterVars >>

\* SharedData data = { polygon, n, num_pontos_aleatorios, 0, 0 }; mutex init.
MainInit ==
    /\ pc = "init"
    /\ polygon_size' = n
    /\ total_points' = num_pontos_aleatorios
    /\ points_inside' = 0
    /\ points_checked' = 0
    /\ mutex' = 0
    /\ pc' = "create_workers"
    /\ UNCHANGED << kernelVars, inputVars, n, polygon, mainLoopVars, workerVars, reporterVars >>

\* for (i = 0; i < num_threads; i++) pthread_create(&worker_threads[i], ...);
MainCreateWorker ==
    /\ pc = "create_workers"
    /\ IF created < num_threads
       THEN /\ wpc' = [wpc EXCEPT ![created + 1] = "entry"]
            /\ created' = created + 1
            /\ pc' = pc
       ELSE /\ pc' = "create_progress"
            /\ UNCHANGED << wpc, created >>
    /\ UNCHANGED << kernelVars, inputVars, n, dataConst, counters, mutex, joined,
                    progress_created, estimated_area, wi, points_per_thread,
                    reporterVars >>

\* pthread_create(&progress_thread, NULL, progress_bar, &data);
MainCreateProgress ==
    /\ pc = "create_progress"
    /\ rpc' = "sleep"
    /\ progress_created' = TRUE
    /\ pc' = "join_workers"
    /\ UNCHANGED << kernelVars, inputVars, n, dataConst, counters, mutex, created, joined,
                    estimated_area, workerVars, checked, progress, printed >>

\* for (i = 0; i < num_threads; i++) pthread_join(worker_threads[i], NULL);
MainJoinWorker_NoWait ==
    /\ pc = "join_workers"
    /\ IF joined < num_threads
       THEN /\ joined' = joined + 1
            /\ pc' = pc
       ELSE /\ pc' = "join_progress"
            /\ UNCHANGED joined
    /\ UNCHANGED << kernelVars, inputVars, n, dataConst, counters, mutex, created,
                    progress_created, estimated_area, workerVars, reporterVars >>

MainJoinWorker ==
    /\ pc = "join_workers"
    /\ IF joined < num_threads
       THEN /\ wpc[joined + 1] = "done"
            /\ joined' = joined + 1
            /\ pc' = pc
       ELSE /\ pc' = "join_progress"
            /\ UNCHANGED joined
    /\ UNCHANGED << kernelVars, inputVars, n, dataConst, counters, mutex, created,
                    progress_created, estimated_area, workerVars, reporterVars >>

\* pthread_join(progress_thread, NULL);
MainJoinProgress ==
    /\ pc = "join_progress"
    /\ rpc = "done"
    /\ pc' = "estimate"
    /\ UNCHANGED << kernelVars, inputVars, n, dataConst, counters, mutex, mainLoopVars,
                    workerVars, reporterVars >>

\* estimated_area = ((double)data.points_inside / num_pontos_aleatorios) * 4.0,
\* kept as the exact fraction num / den; printf; return EXIT_SUCCESS.
MainEstimate ==
    /\ pc = "estimate"
    /\ estimated_area' = << [num |-> points_inside * AreaOfReference,
                             den |-> num_pontos_aleatorios] >>
    /\ pc' = "exit_success"
    /\ UNCHANGED << kernelVars, inputVars, n, dataConst, counters, mutex, created, joined,
                    progress_created, workerVars, reporterVars >>

\* -------------------------------------------------------- worker_thread
\* The for loop's test, i < points_per_thread: the body is entered at the
\* pthread_mutex_lock (the point p drawn before it is a local that only the
\* classification reads, so its draw is made there), else the thread returns.
LoopTest(i, limit) == IF i < limit THEN "lock" ELSE "done"

\* int points_per_thread = data->total_points; int i = 0; i < points_per_thread ?
WorkerEntry(w) ==
    /\ wpc[w] = "entry"
    /\ points_per_thread' = [points_per_thread EXCEPT ![w] = total_points]
    /\ wi' = [wi EXCEPT ![w] = 0]
    /\ wpc' = [wpc EXCEPT ![w] = LoopTest(0, total_points)]
    /\ UNCHANGED << kernelVars, inputVars, pc, n, dataConst, counters, mutex, mainLoopVars,
                    reporterVars >>

\* pthread_mutex_lock(&data->mutex);
WorkerLock_NoWait(w) ==
    /\ wpc[w] = "lock"
    /\ mutex' = w
    /\ wpc' = [wpc EXCEPT ![w] = "inc_checked"]
    /\ UNCHANGED << kernelVars, inputVars, pc, n, dataConst, counters, mainLoopVars,
                    wi, points_per_thread, reporterVars >>

WorkerLock(w) ==
    /\ wpc[w] = "lock"
    /\ mutex = 0
    /\ mutex' = w
    /\ wpc' = [wpc EXCEPT ![w] = "inc_checked"]
    /\ UNCHANGED << kernelVars, inputVars, pc, n, dataConst, counters, mainLoopVars,
                    wi, points_per_thread, reporterVars >>

\* data->points_checked++;
WorkerIncChecked_Lost(w) ==
    /\ wpc[w] = "inc_checked"
    /\ wpc' = [wpc EXCEPT ![w] = "classify"]
    /\ UNCHANGED << kernelVars, inputVars, pc, n, dataConst, counters, mutex, mainLoopVars,
                    wi, points_per_thread, reporterVars >>

WorkerIncChecked(w) ==
    /\ wpc[w] = "inc_checked"
    /\ points_checked' = points_checked + 1
    /\ wpc' = [wpc EXCEPT ![w] = "classify"]
    /\ UNCHANGED << kernelVars, inputVars, pc, n, dataConst, points_inside, mutex, mainLoopVars,
                    wi, points_per_thread, reporterVars >>

\* if (isInsidePolygon(data->polygon, data->polygon_size, p)) data->points_inside++;
WorkerClassify(w) ==
    /\ wpc[w] = "classify"
    /\ \E inside \in { isInsidePolygon(polygon, polygon_size, p) : p \in SamplePoints } :
         points_inside' = IF inside THEN points_inside + 1 ELSE points_inside
    /\ wpc' = [wpc EXCEPT ![w] = "unlock"]
    /\ UNCHANGED << kernelVars, inputVars, pc, n, dataConst, points_checked, mutex, mainLoopVars,
                    wi, points_per_thread, reporterVars >>

\* pthread_mutex_unlock(&data->mutex); i++; i < points_per_thread ?
WorkerUnlock_Held(w) ==
    /\ wpc[w] = "unlock"
    /\ wi' = [wi EXCEPT ![w] = wi[w] + 1]
    /\ wpc' = [wpc EXCEPT ![w] = LoopTest(wi[w] + 1, points_per_thread[w])]
    /\ UNCHANGED << kernelVars, inputVars, pc, n, dataConst, counters, mutex, mainLoopVars,
                    points_per_thread, reporterVars >>

WorkerUnlock(w) ==
    /\ wpc[w] = "unlock"
    /\ mutex' = 0
    /\ wi' = [wi EXCEPT ![w] = wi[w] + 1]
    /\ wpc' = [wpc EXCEPT ![w] = LoopTest(wi[w] + 1, points_per_thread[w])]
    /\ UNCHANGED << kernelVars, inputVars, pc, n, dataConst, counters, mainLoopVars,
                    points_per_thread, reporterVars >>

\* --------------------------------------------------------- progress_bar
\* sleep(1); pthread_mutex_lock(&data->mutex);
ReporterLock ==
    /\ rpc = "sleep"
    /\ mutex = 0
    /\ mutex' = ReporterId
    /\ rpc' = "read"
    /\ UNCHANGED << kernelVars, inputVars, pc, n, dataConst, counters, mainLoopVars,
                    workerVars, checked, progress, printed >>

\* int checked = data->points_checked;
ReporterRead_Reset ==
    /\ rpc = "read"
    /\ checked' = points_checked
    /\ points_checked' = 0
    /\ rpc' = "unlock"
    /\ UNCHANGED << kernelVars, inputVars, pc, n, dataConst, points_inside, mutex,
                    mainLoopVars, workerVars, progress, printed >>

ReporterRead ==
    /\ rpc = "read"
    /\ checked' = points_checked
    /\ rpc' = "unlock"
    /\ UNCHANGED << kernelVars, inputVars, pc, n, dataConst, counters, mutex, mainLoopVars,
                    workerVars, progress, printed >>

\* pthread_mutex_unlock(&data->mutex);
ReporterUnlock ==
    /\ rpc = "unlock"
    /\ mutex' = 0
    /\ rpc' = "print"
    /\ UNCHANGED << kernelVars, inputVars, pc, n, dataConst, counters, mainLoopVars,
                    workerVars, checked, progress, printed >>

\* progress = (checked * 100) / data->total_points; printf;
\* if (checked >= data->total_points) break;
ReporterPrint ==
    /\ rpc = "print"
    /\ progress' = Progress(checked, total_points)
    /\ printed' = TRUE
    /\ rpc' = IF checked >= total_points THEN "done" ELSE "sleep"
    /\ UNCHANGED << kernelVars, inputVars, pc, n, dataConst, counters, mutex, mainLoopVars,
                    workerVars, checked >>

\* ---------------------------------------------------------------- specs
Main ==
    \/ MainArgs \/ MainValidate \/ MainOpenFails \/ MainParse \/ MainCheckPolygon
    \/ MainInit \/ MainCreateWorker \/ MainCreateProgress \/ MainJoinWorker
    \/ MainJoinProgress \/ MainEstimate

Worker(w) ==
    \/ WorkerEntry(w) \/ WorkerLock(w) \/ WorkerIncChecked(w)
    \/ WorkerClassify(w) \/ WorkerUnlock(w)

Reporter == ReporterLock \/ ReporterRead \/ ReporterUnlock \/ ReporterPrint

Next == Main \/ (\E w \in Threads : Worker(w)) \/ Reporter

Spec == Init /\ [][Next]_vars

\* Scheduling: every thread that can run is eventually run.  A worker that
\* waits for the mutex gets it although the progress thread keeps taking it,
\* because that thread sleeps a second between two acquisitions.
FairSpec ==
    /\ Spec
    /\ WF_vars(Main)
    /\ WF_vars(Reporter)
    /\ \A w \in Threads : SF_vars(Worker(w))

\* ---------------------------------------------------- a run, late in it
\* States of a single-worker run whose total_points is at the edge of what
\* checked * 100 can hold: the worker has done all but a few of its
\* iterations and the progress thread is in its sleep, nothing printed yet.
LargeTotals == { ThresholdTotal - 1, ThresholdTotal }

InitMidRun ==
    /\ argc = ArgcExpected
    /\ num_threads = 1
    /\ num_pontos_aleatorios \in LargeTotals
    /\ pc = "join_workers"
    /\ polygon = ParsePolygon(UnitSquareFile)
    /\ n = Len(polygon)
    /\ polygon_size = n
    /\ total_points = num_pontos_aleatorios
    /\ \E d \in 0..MidRunWindow : points_checked = total_points - d
    /\ points_inside \in { 0, points_checked }
    /\ mutex = 0
    /\ created = 1
    /\ joined = 0
    /\ progress_created = TRUE
    /\ estimated_area = << >>
    /\ points_per_thread = [w \in Threads |-> IF w = 1 THEN total_points ELSE 0]
    /\ wi = [w \in Threads |-> IF w = 1 THEN points_checked ELSE 0]
    /\ wpc = [w \in Threads |-> IF w = 1 THEN LoopTest(points_checked, total_points)
                                           ELSE "unborn"]
    /\ rpc = "sleep"
    /\ checked = 0
    /\ progress = 0
    /\ printed = FALSE
    /\ call = NoCall
    /\ ret = << >>
    /\ edges = 0

NextMidRun ==
    \/ MainJoinWorker \/ MainJoinProgress \/ MainEstimate
    \/ \E w \in Threads :
         WorkerLock(w) \/ WorkerIncChecked(w) \/ WorkerClassify(w) \/ WorkerUnlock(w)
    \/ Reporter

SpecMidRun == InitMidRun /\ [][NextMidRun]_vars

\* ------------------------------------------- the kernel called on its own
\* Points for orientation and doIntersect, and for the query point of
\* isInsidePolygon (the whole sampling domain, in steps of 1/Scale).
GridPoints == { Pt(x, y) : x \in 0..GridMax, y \in 0..GridMax }
DomainPoints == { Pt(x, y) : x \in 0..(DomainSide * Scale), y \in 0..(DomainSide * Scale) }

\* Polygons: the unit square, a triangle and an L (the square [0,2] x [0,2]
\* without its lower right quarter), each from every start vertex and in
\* both directions; and vertex lists too short to be a polygon.
UnitSquare == ParsePolygon(UnitSquareFile)
Triangle == << Pt(0, 0), Pt(2 * Scale, 0), Pt(0, 2 * Scale) >>
LShape == << Pt(Scale, Scale), Pt(2 * Scale, Scale), Pt(2 * Scale, 2 * Scale),
             Pt(0, 2 * Scale), Pt(0, 0), Pt(Scale, 0) >>

Rotate(poly, k) == [i \in 1..Len(poly) |-> poly[((i - 1 + k) % Len(poly)) + 1]]
Reverse(poly) == [i \in 1..Len(poly) |-> poly[Len(poly) + 1 - i]]
Orders(poly) ==
    { Rotate(poly, k) : k \in 0..(Len(poly) - 1) }
        \cup { Rotate(Reverse(poly), k) : k \in 0..(Len(poly) - 1) }

ShortLists ==
    { << >>, << Pt(0, 0) >>, << Pt(0, 0), Pt(Scale, 0) >>, << Pt(Scale, Scale), Pt(0, 0) >> }

KernelPolygons == Orders(UnitSquare) \cup Orders(Triangle) \cup Orders(LShape) \cup ShortLists

KernelCalls ==
    { [fn |-> "orientation", pts |-> << p, q, r >>, poly |-> << >>] :
          p \in GridPoints, q \in GridPoints, r \in GridPoints }
    \cup { [fn |-> "doIntersect", pts |-> << a, b, c, d >>, poly |-> << >>] :
          a \in GridPoints, b \in GridPoints, c \in GridPoints, d \in GridPoints }
    \cup { [fn |-> "isInsidePolygon", pts |-> << p >>, poly |-> poly] :
          p \in DomainPoints, poly \in KernelPolygons }

\* One call is pending; main is not running.
InitKernel ==
    /\ call \in KernelCalls
    /\ ret = << >>
    /\ edges = 0
    /\ argc = ArgcExpected
    /\ num_threads = 1
    /\ num_pontos_aleatorios = 1
    /\ pc = "args"
    /\ n = 0
    /\ polygon = << >>
    /\ polygon_size = 0
    /\ total_points = 0
    /\ points_inside = 0
    /\ points_checked = 0
    /\ mutex = 0
    /\ created = 0
    /\ joined = 0
    /\ progress_created = FALSE
    /\ estimated_area = << >>
    /\ wpc = [w \in Threads |-> "unborn"]
    /\ wi = [w \in Threads |-> 0]
    /\ points_per_thread = [w \in Threads |-> 0]
    /\ rpc = "unborn"
    /\ checked = 0
    /\ progress = 0
    /\ printed = FALSE

programVars == << inputVars, pc, n, dataConst, counters, mutex, mainLoopVars,
                  workerVars, reporterVars >>

ReturnOrientation ==
    /\ call.fn = "orientation"
    /\ ret = << >>
    /\ ret' = << orientation(call.pts[1], call.pts[2], call.pts[3]) >>
    /\ UNCHANGED << call, edges, programVars >>

ReturnDoIntersect ==
    /\ call.fn = "doIntersect"
    /\ ret = << >>
    /\ ret' = << doIntersect(call.pts[1], call.pts[2], call.pts[3], call.pts[4]) >>
    /\ UNCHANGED << call, edges, programVars >>

ReturnIsInsidePolygon ==
    /\ call.fn = "isInsidePolygon"
    /\ ret = << >>
    /\ ret' = << isInsidePolygon(call.poly, Len(call.poly), call.pts[1]) >>
    /\ edges' = EdgesInspected(call.poly, Len(call.poly), call.pts[1])
    /\ UNCHANGED << call, programVars >>

NextKernel == ReturnOrientation \/ ReturnDoIntersect \/ ReturnIsInsidePolygon

SpecKernel == InitKernel /\ [][NextKernel]_vars

\* ---------------------------------------------------------------- claims
Workers == 1..num_threads
AllWorkersDone == \A w \in Workers : wpc[w] = "done"
WorkersJoined == pc \in { "join_progress", "estimate", "exit_success" }
RunStarted == pc \in { "create_workers", "create_progress", "join_workers",
                       "join_progress", "estimate", "exit_success" }

RECURSIVE SumDrawn(_)
SumDrawn(k) == IF k = 0 THEN 0 ELSE wi[k] + SumDrawn(k - 1)

\* C1: once every worker thread has been joined, points_checked equals
\* total_points exactly, whatever the number of workers and the interleaving.
C1_CheckedEqualsTotal == WorkersJoined => points_checked = total_points

\* C2: points_checked never exceeds total_points, and neither does the value
\* the progress thread read under the mutex.
C2_CheckedAtMostTotal ==
    /\ points_checked <= total_points
    /\ checked <= total_points

\* C3: the workers share total_points among them: each draws
\* total_points / num_threads samples, one of them the remainder as well, and
\* the workers' sample counts sum to total_points.
C3_SharesPartitionTotal ==
    (RunStarted /\ AllWorkersDone) =>
        /\ SumDrawn(num_threads) = total_points
        /\ \A w \in Workers :
             wi[w] \in { total_points \div num_threads,
                         (total_points \div num_threads) + (total_points % num_threads) }

\* C4: 0 <= points_inside <= points_checked in every state, the states
\* between a worker's two increments included.
C4_InsideAtMostChecked == 0 <= points_inside /\ points_inside <= points_checked

C4_Witness ==
    \E w \in Threads :
        /\ wpc[w] = "classify"
        /\ points_checked = MaxPoints
        /\ points_inside = points_checked - 1

\* C5: a run with num_threads <= 0 or num_pontos_aleatorios <= 0, or whose
\* polygon file yields fewer than 3 vertices, goes from its check straight to
\* the failure exit: no worker and no progress thread is created, no counter is
\* incremented and no estimate is printed.
NothingStarted ==
    /\ \A w \in Threads : wpc[w] = "unborn"
    /\ rpc = "unborn"
    /\ ~progress_created
    /\ created = 0
    /\ points_checked = 0
    /\ points_inside = 0
    /\ ~printed
    /\ estimated_area = << >>

C5_FailFast ==
    /\ (num_threads <= 0 \/ num_pontos_aleatorios <= 0) =>
          (pc \in { "args", "validate", "exit_failure" } /\ NothingStarted)
    /\ (pc \notin { "args", "validate", "open" } /\ n < MinVertices) =>
          (pc \in { "check_polygon", "exit_failure" } /\ NothingStarted)

C5_Witness ==
    /\ pc = "exit_failure"
    /\ num_threads > 0 /\ num_pontos_aleatorios > 0
    /\ n = MinVertices - 1

\* C6: the progress thread ends at the first read that shows
\* checked >= total_points, and the percentage it prints last is exactly 100.
C6_ReporterEndsAt100 ==
    [][ (rpc = "print" /\ rpc' # "print") =>
          /\ (rpc' = "done") <=> (checked >= total_points)
          /\ (rpc' = "done") => (progress' = 100) ]_vars

C8_Monotonic ==
    [][ /\ RunStarted => (points_checked' >= points_checked
                          /\ points_inside' >= points_inside)
        /\ (printed /\ printed') => progress' >= progress ]_vars

\* << floor(c * m / t), (c * m) % t >> for 0 <= c <= t, by m additions of c
\* with the quotient q and the remainder r of the running sum kept apart.
RECURSIVE MulDivMod(_, _, _, _, _)
MulDivMod(c, t, m, q, r) ==
    IF m = 0 THEN << q, r >>
    ELSE IF r >= t - c THEN MulDivMod(c, t, m - 1, q + 1, r - (t - c))
    ELSE MulDivMod(c, t, m - 1, q, r + c)

\* floor(c * 100 / t) for 0 <= c <= t, one decimal digit of the factor at a time.
ExactPercent(c, t) ==
    LET tens == MulDivMod(c, t, 10, 0, 0)
        ones == MulDivMod(tens[2], t, 10, 0, 0)
    IN  tens[1] * 10 + ones[1]

ProductFits(c) == Mul100Limbs(c)[1] < 32768

\* C9: for 0 <= checked <= total_points the percentage printed is
\* floor(checked * 100 / total_points), lies in 0..100, and checked * 100 does
\* not leave the range of int.
C9_PercentExact ==
    (printed /\ rpc \in { "sleep", "read", "done" }
       /\ 0 <= checked /\ checked <= total_points) =>
        /\ ProductFits(checked)
        /\ progress = ExactPercent(checked, total_points)
        /\ progress \in 0..100

\* C10: main reads points_inside for the estimate only after every worker has
\* finished, so the estimate is made of the final counter value.
C10_EstimateAfterWorkers ==
    /\ pc \in { "estimate", "exit_success" } => AllWorkersDone
    /\ estimated_area # << >> =>
          /\ AllWorkersDone
          /\ estimated_area[1].num = points_inside * AreaOfReference
          /\ estimated_area[1].den = total_points

C10_Witness ==
    /\ estimated_area # << >>
    /\ num_threads = MaxThreads
    /\ points_inside > 0
    /\ points_inside < points_checked

\* ------------------------------------------------------ kernel claims
Returned(fn) == call.fn = fn /\ ret # << >>

\* p lies on the closed segment a-b: the cross product of b - a and p - a
\* vanishes and p is between a and b in both coordinates.
OnClosedSegment(a, p, b) ==
    /\ (b.x - a.x) * (p.y - a.y) = (b.y - a.y) * (p.x - a.x)
    /\ (a.x <= p.x /\ p.x <= b.x) \/ (b.x <= p.x /\ p.x <= a.x)
    /\ (a.y <= p.y /\ p.y <= b.y) \/ (b.y <= p.y /\ p.y <= a.y)

OnBoundary(poly, p) ==
    \E i \in 1..Len(poly) : OnClosedSegment(poly[i], p, poly[(i % Len(poly)) + 1])

\* C11: for a simple polygon of at least 3 vertices and a query point on one
\* of its edges (a vertex included) isInsidePolygon returns true, from
\* whatever vertex and in whatever direction the edges are traversed.
C11_BoundaryIsInside ==
    (Returned("isInsidePolygon") /\ Len(call.poly) >= MinVertices
       /\ OnBoundary(call.poly, call.pts[1])) => ret[1] = TRUE

\* C12: for the unit square [(0,0),(1,0),(1,1),(0,1)] and every point p of the
\* grid over [0,2] x [0,2], isInsidePolygon(p) is true exactly when
\* 0 <= p.x <= 1 and 0 <= p.y <= 1; and one in four of the unit cells of the
\* domain has its centre inside, which makes the estimate 4.0 / 4 = 1.00.
C12_UnitSquare ==
    (Returned("isInsidePolygon") /\ call.poly = UnitSquare) =>
        /\ ret[1] = (/\ 0 <= call.pts[1].x /\ call.pts[1].x <= Scale
                     /\ 0 <= call.pts[1].y /\ call.pts[1].y <= Scale)
        /\ AreaOfReference
             * Cardinality({ p \in SamplePoints : isInsidePolygon(UnitSquare, Len(UnitSquare), p) })
           = Cardinality(SamplePoints)

C12_Witness ==
    /\ Returned("isInsidePolygon")
    /\ call.poly = UnitSquare
    /\ call.pts[1] = Pt(Scale, Scale)
    /\ ret[1] = TRUE

\* C13: doIntersect(a, b, c, d) = doIntersect(c, d, a, b) for all points of
\* the grid, colinear and coinciding ones included.
C13_IntersectSymmetric ==
    Returned("doIntersect") =>
        ret[1] = doIntersect(call.pts[3], call.pts[4], call.pts[1], call.pts[2])

C13_Witness ==
    /\ Returned("doIntersect")
    /\ ret[1] = TRUE
    /\ call.pts[1] # call.pts[2] /\ call.pts[3] # call.pts[4]
    /\ orientation(call.pts[1], call.pts[2], call.pts[3]) = 0
    /\ orientation(call.pts[1], call.pts[2], call.pts[4]) = 0
    /\ call.pts[3] # call.pts[1] /\ call.pts[3] # call.pts[2]

\* C14: orientation(p, q, r) is 0 exactly when p, q, r lie on one line, and
\* swapping q and r turns 1 into 2, 2 into 1 and leaves 0.
C14_OrientationAntisymmetric ==
    Returned("orientation") =>
        LET p == call.pts[1]
            q == call.pts[2]
            r == call.pts[3]
            swapped == orientation(p, r, q)
        IN  /\ (ret[1] = 0) <=> ((q.x - p.x) * (r.y - p.y) = (q.y - p.y) * (r.x - p.x))
            /\ ret[1] = 0 => swapped = 0
            /\ ret[1] = 1 => swapped = 2
            /\ ret[1] = 2 => swapped = 1

C14_Witness ==
    /\ Returned("orientation")
    /\ ret[1] = 1
    /\ orientation(call.pts[1], call.pts[3], call.pts[2]) = 2

\* C15: for a vertex list of fewer than 3 vertices isInsidePolygon returns
\* false for every query point and passes no edge to doIntersect.
C15_TooFewVertices ==
    (Returned("isInsidePolygon") /\ Len(call.poly) < MinVertices) =>
        (ret[1] = FALSE /\ edges = 0)

C15_Witness ==
    /\ Returned("isInsidePolygon")
    /\ Len(call.poly) = MinVertices - 1
    /\ call.pts[1] = call.poly[1]
    /\ ret[1] = FALSE

\* ---------------------------------------------------- more run claims
InCritical(w) == wpc[w] \in { "inc_checked", "classify", "unlock" }
ReporterInCritical == rpc \in { "read", "unlock" }
HoldersCount ==
    Cardinality({ w \in Threads : InCritical(w) }) + (IF ReporterInCritical THEN 1 ELSE 0)

C17_ReporterEndsAfterWorkers ==
    (rpc \in { "unlock", "print", "done" } /\ checked >= total_points) => AllWorkersDone

\* C18: when main reads points_inside for the estimate it is at most
\* total_points, so the estimate lies between 0 and the reference area 4.0.
C18_EstimateWithinDomain ==
    estimated_area # << >> =>
        /\ points_inside <= total_points
        /\ 0 <= estimated_area[1].num
        /\ estimated_area[1].num <= AreaOfReference * estimated_area[1].den

\* C19: a step of the progress thread leaves points_checked, points_inside,
\* total_points and the polygon as they are; once the threads are being
\* created only a worker's step changes a counter, and no step changes the
\* polygon or total_points.
C19_ReporterReadOnly ==
    [][ /\ Reporter => UNCHANGED << counters, dataConst >>
        /\ (RunStarted /\ counters' # counters) => \E w \in Workers : Worker(w)
        /\ RunStarted => UNCHANGED dataConst ]_vars

C19_Witness ==
    /\ rpc = "unlock"
    /\ checked = MaxPoints
    /\ points_inside > 0
    /\ \E w \in Workers : wpc[w] # "done"

====
